---- MODULE Spec2Model ----
(***************************************************************************)
(* Model of myproject/devops_ui/views.py: the devops_trigger view, the     *)
(* _trigger_devops_run helper and the _safe_json response normaliser.      *)
(*                                                                         *)
(* Text is a sequence of atoms.  An atom is a one-character string ("4",   *)
(* "/", " ") or a literal fragment of the source (a whole fixed message    *)
(* or format piece), so concatenation, strip, startswith, slicing and      *)
(* substring search act on text as they act on Python strings.            *)
(* Named atoms stand for characters TLA+ strings cannot spell:            *)
(*   "U+0664"  ARABIC-INDIC DIGIT FOUR (a Unicode decimal digit, Nd)       *)
(*   "\\v"     VERTICAL TAB (whitespace for str.strip, not for JSON)       *)
(*   "\\q"     QUOTATION MARK                                              *)
(***************************************************************************)
EXTENDS Integers, Sequences, FiniteSets, TLC

VARIABLES settings, request, phase, remote, context, log, outbound, fault

vars == <<settings, request, phase, remote, context, log, outbound, fault>>

(***************************************************************************)
(* Bounds of the model.                                                    *)
(***************************************************************************)
MaxIdLen == 2
MaxBodyLen == 3
MaxOver == 1

(***************************************************************************)
(* Program constants.                                                      *)
(***************************************************************************)
RawLimit == 2000
TimeoutSeconds == 15
ErrorStatus == 400

(***************************************************************************)
(* Text helpers.                                                           *)
(***************************************************************************)
Min(a, b) == IF a <= b THEN a ELSE b

SeqsUpTo(S, n) == UNION {[1..k -> S] : k \in 0..n}

Repeat(c, n) == [i \in 1..n |-> c]

\* s[:n]
Take(s, n) == SubSeq(s, 1, Min(Len(s), n))

\* s.startswith(p)
StartsWith(s, p) == Len(s) >= Len(p) /\ SubSeq(s, 1, Len(p)) = p

\* c in s
Contains(s, c) == \E i \in 1..Len(s) : s[i] = c

\* sub in s
IsSubstring(sub, s) ==
    \E i \in 0..(Len(s) - Len(sub)) : SubSeq(s, i + 1, i + Len(sub)) = sub

\* Characters str.strip() removes (str.isspace).
PyWhitespace == {" ", "\\v"}

\* s.strip()
Strip(s) ==
    IF \A i \in 1..Len(s) : s[i] \in PyWhitespace THEN <<>>
    ELSE LET lo == CHOOSE i \in 1..Len(s) :
                      /\ s[i] \notin PyWhitespace
                      /\ \A j \in 1..(i - 1) : s[j] \in PyWhitespace
             hi == CHOOSE i \in 1..Len(s) :
                      /\ s[i] \notin PyWhitespace
                      /\ \A j \in (i + 1)..Len(s) : s[j] \in PyWhitespace
         IN  SubSeq(s, lo, hi)

\* s.rstrip("/")
RStripSlash(s) ==
    IF \A i \in 1..Len(s) : s[i] = "/" THEN <<>>
    ELSE SubSeq(s, 1, CHOOSE i \in 1..Len(s) :
                         /\ s[i] # "/"
                         /\ \A j \in (i + 1)..Len(s) : s[j] = "/")

\* sep.join(parts)
RECURSIVE Join(_, _)
Join(sep, parts) ==
    IF parts = <<>> THEN <<>>
    ELSE IF Len(parts) = 1 THEN parts[1]
    ELSE parts[1] \o sep \o Join(sep, Tail(parts))

\* str(n) for n >= 0
RECURSIVE Str(_)
Str(n) ==
    LET d == <<"0", "1", "2", "3", "4", "5", "6", "7", "8", "9">>
    IN  IF n < 10 THEN <<d[n + 1]>> ELSE Str(n \div 10) \o <<d[(n % 10) + 1]>>

\* x or y, for text (the empty string is falsy)
OrElse(x, y) == IF x # <<>> THEN x ELSE y

(***************************************************************************)
(* Line 15: _PIPELINE_ID_RE = re.compile(r"^\d+$").  For a str pattern \d  *)
(* matches every Unicode decimal digit, not only 0-9.                      *)
(***************************************************************************)
AsciiDigits == {"0", "1", "2", "3", "4", "5", "6", "7", "8", "9"}

UnicodeDigits == AsciiDigits \cup {"U+0664"}

\* _PIPELINE_ID_RE.match(s): ^\d+$ (s is stripped, so $ before a final
\* newline never applies)
_PIPELINE_ID_RE(s) == Len(s) >= 1 /\ \A i \in 1..Len(s) : s[i] \in UnicodeDigits

(***************************************************************************)
(* Lines 18-29: _safe_json.  resp.json() is json.loads on the body text;   *)
(* the grammar below is JSON over the characters the model's bodies use:   *)
(* whitespace, digits, quoted strings, arrays and objects.  A parsed value *)
(* is [t, s, keys, kids]: t the type, s the digits or the string's text,   *)
(* keys the member names of an object, kids the elements or member values. *)
(***************************************************************************)
JsonWhitespace == {" "}

\* Control characters json.loads rejects inside a string.
JsonControl == {"\\v"}

JsonValue(t, s, keys, kids) == [t |-> t, s |-> s, keys |-> keys, kids |-> kids]

\* {}
EmptyObject == JsonValue("object", <<>>, <<>>, <<>>)

JsonString(s) == JsonValue("string", s, <<>>, <<>>)

\* {"raw": prefix}
RawObject(prefix) ==
    JsonValue("object", <<>>, << <<"r", "a", "w">> >>, <<JsonString(prefix)>>)

ParseFail == [ok |-> FALSE, val |-> EmptyObject, pos |-> 0]

ParseOk(v, p) == [ok |-> TRUE, val |-> v, pos |-> p]

\* First index >= i holding no JSON whitespace, Len(s) + 1 when there is none.
NextNonWs(s, i) ==
    IF \A j \in i..Len(s) : s[j] \in JsonWhitespace THEN Len(s) + 1
    ELSE CHOOSE j \in i..Len(s) :
            /\ s[j] \notin JsonWhitespace
            /\ \A k \in i..(j - 1) : s[k] \in JsonWhitespace

\* End of the number that starts at the digit s[i]: 0 | [1-9][0-9]*
NumberEnd(s, i) ==
    IF s[i] = "0" THEN i + 1
    ELSE IF \A j \in i..Len(s) : s[j] \in AsciiDigits THEN Len(s) + 1
    ELSE CHOOSE j \in i..Len(s) :
            /\ s[j] \notin AsciiDigits
            /\ \A k \in i..(j - 1) : s[k] \in AsciiDigits

\* A quoted string that starts at the quote s[i].
ParseString(s, i) ==
    IF \A j \in (i + 1)..Len(s) : s[j] # "\\q" THEN ParseFail
    ELSE LET j == CHOOSE j \in (i + 1)..Len(s) :
                    /\ s[j] = "\\q"
                    /\ \A k \in (i + 1)..(j - 1) : s[k] # "\\q"
             body == SubSeq(s, i + 1, j - 1)
         IN  IF \E k \in 1..Len(body) : body[k] \in JsonControl THEN ParseFail
             ELSE ParseOk(JsonString(body), j + 1)

\* dict[key] = value: a repeated key keeps its place and takes the new value.
PutMember(obj, key, value) ==
    IF \E n \in 1..Len(obj.keys) : obj.keys[n] = key
    THEN LET n == CHOOSE n \in 1..Len(obj.keys) : obj.keys[n] = key
         IN  [obj EXCEPT !.kids[n] = value]
    ELSE [obj EXCEPT !.keys = Append(@, key), !.kids = Append(@, value)]

RECURSIVE ParseValue(_, _)
RECURSIVE ParseElements(_, _, _)
RECURSIVE ParseMembers(_, _, _)

\* s[i] is the first character of an element; acc holds the elements so far.
ParseElements(s, i, acc) ==
    LET v == ParseValue(s, i)
    IN  IF ~v.ok THEN ParseFail
        ELSE LET j == NextNonWs(s, v.pos)
                 arr == JsonValue("array", <<>>, <<>>, Append(acc, v.val))
             IN  IF j > Len(s) THEN ParseFail
                 ELSE IF s[j] = "]" THEN ParseOk(arr, j + 1)
                 ELSE IF s[j] = "," THEN ParseElements(s, NextNonWs(s, j + 1), arr.kids)
                 ELSE ParseFail

\* s[i] is the first character of a member; obj holds the members so far.
ParseMembers(s, i, obj) ==
    IF i > Len(s) \/ s[i] # "\\q" THEN ParseFail
    ELSE LET k == ParseString(s, i)
         IN  IF ~k.ok THEN ParseFail
             ELSE LET c == NextNonWs(s, k.pos)
                  IN  IF c > Len(s) \/ s[c] # ":" THEN ParseFail
                      ELSE LET v == ParseValue(s, NextNonWs(s, c + 1))
                           IN  IF ~v.ok THEN ParseFail
                               ELSE LET j == NextNonWs(s, v.pos)
                                        o == PutMember(obj, k.val.s, v.val)
                                    IN  IF j > Len(s) THEN ParseFail
                                        ELSE IF s[j] = "}" THEN ParseOk(o, j + 1)
                                        ELSE IF s[j] = ","
                                             THEN ParseMembers(s, NextNonWs(s, j + 1), o)
                                        ELSE ParseFail

\* The value that starts at s[i].
ParseValue(s, i) ==
    IF i > Len(s) THEN ParseFail
    ELSE IF s[i] \in AsciiDigits
         THEN LET e == NumberEnd(s, i)
              IN  ParseOk(JsonValue("number", SubSeq(s, i, e - 1), <<>>, <<>>), e)
    ELSE IF s[i] = "\\q" THEN ParseString(s, i)
    ELSE IF s[i] = "["
         THEN LET k == NextNonWs(s, i + 1)
              IN  IF k <= Len(s) /\ s[k] = "]"
                  THEN ParseOk(JsonValue("array", <<>>, <<>>, <<>>), k + 1)
                  ELSE ParseElements(s, k, <<>>)
    ELSE IF s[i] = "{"
         THEN LET k == NextNonWs(s, i + 1)
              IN  IF k <= Len(s) /\ s[k] = "}"
                  THEN ParseOk(EmptyObject, k + 1)
                  ELSE ParseMembers(s, k, EmptyObject)
    ELSE ParseFail

\* resp.json(): the parsed value, or ok = FALSE where it raises ValueError
\* (one value, then only whitespace).
JsonLoads(text) ==
    LET v == ParseValue(text, NextNonWs(text, 1))
    IN  IF v.ok /\ NextNonWs(text, v.pos) = Len(text) + 1 THEN v ELSE ParseFail

\* Variant: the fallback cuts the stripped text.
_safe_json_CutsTrimmed(text) ==
    IF Strip(text) = <<>> THEN EmptyObject
    ELSE LET v == JsonLoads(text)
         IN  IF v.ok THEN v.val ELSE RawObject(Take(Strip(text), RawLimit))

\* _safe_json(resp), resp.text = text
_safe_json(text) ==
    IF Strip(text) = <<>> THEN EmptyObject
    ELSE LET v == JsonLoads(text)
         IN  IF v.ok THEN v.val ELSE RawObject(Take(text, RawLimit))

(***************************************************************************)
(* Settings (docstring, lines 68-72): AZDO_ORG_URL and AZDO_PAT are        *)
(* present, possibly empty; AZDO_DEFAULT_PROJECT and AZDO_DEFAULT_REF are  *)
(* optional and read with getattr.                                         *)
(***************************************************************************)
Unset == [set |-> FALSE, v |-> <<>>]

Set(v) == [set |-> TRUE, v |-> v]

\* getattr(settings, name, default) and request.POST.get(name)
GetAttr(opt, default) == IF opt.set THEN opt.v ELSE default

OrgUrls == {<<>>, <<"h", ":", "/", "/", "o">>, <<"h", ":", "/", "/", "o", "/">>}

Tokens == {<<"t">>, <<"k">>}

DefaultPairs ==
    { [project |-> Unset, ref |-> Unset],
      [project |-> Set(<<"D">>), ref |-> Set(<<"r", "e", "f", "s", "/", "d">>)],
      [project |-> Set(<<"D", "/">>), ref |-> Set(<<"d">>)],
      [project |-> Set(<<>>), ref |-> Set(<<>>)] }

Settings ==
    { [AZDO_ORG_URL |-> u, AZDO_PAT |-> t,
       AZDO_DEFAULT_PROJECT |-> d.project, AZDO_DEFAULT_REF |-> d.ref] :
         u \in OrgUrls, t \in Tokens \cup {<<>>}, d \in DefaultPairs }

(***************************************************************************)
(* Messages and format pieces, each one atom.                              *)
(***************************************************************************)
MsgPipelineId == <<"Pipeline ID must be a numeric ID (e.g., 42).">>

MsgProjectRequired == <<"Project is required.">>

MsgProjectSlash ==
    <<"Project must not contain '/'. Use the exact display name from Azure DevOps.">>

MsgBranch == <<"Branch must be a valid Git ref (e.g., refs/heads/main).">>

MsgConfigMissing == <<"Azure DevOps configuration missing (AZDO_ORG_URL or AZDO_PAT).">>

MsgTimeout == <<"Request to Azure DevOps timed out. Please retry.">>

MsgNetwork(details) == <<"Network error while contacting Azure DevOps: ">> \o details

MsgHint(status) ==
    <<"Azure DevOps returned HTTP ">> \o Str(status)
        \o <<". Check pipeline ID, project name, branch ref, permissions, and PAT scopes.">>

RefsPrefix == <<"r", "e", "f", "s", "/">>

FallbackRef == RefsPrefix \o <<"h", "e", "a", "d", "s", "/", "m", "a", "i", "n">>

(***************************************************************************)
(* Line 47: quote(project, safe=""): every character but the unreserved    *)
(* ones becomes the %XX of its UTF-8 bytes.                                *)
(***************************************************************************)
QuoteChar(c) ==
    CASE c = " "      -> <<"%", "2", "0">>
      [] c = "/"      -> <<"%", "2", "F">>
      [] c = "+"      -> <<"%", "2", "B">>
      [] c = "\\v"    -> <<"%", "0", "B">>
      [] c = "U+0664" -> <<"%", "D", "9", "%", "A", "4">>
      [] OTHER        -> <<c>>

RECURSIVE Quote(_)
Quote(s) == IF s = <<>> THEN <<>> ELSE QuoteChar(Head(s)) \o Quote(Tail(s))

(***************************************************************************)
(* The exceptions of requests the model raises, with their base classes.   *)
(***************************************************************************)
Bases(cls) ==
    CASE cls = "ReadTimeout"      -> {"ReadTimeout", "Timeout", "RequestException"}
      [] cls = "ConnectTimeout"   ->
            {"ConnectTimeout", "ConnectionError", "Timeout", "RequestException"}
      [] cls = "ConnectionError"  -> {"ConnectionError", "RequestException"}
      [] cls = "SSLError"         -> {"SSLError", "ConnectionError", "RequestException"}
      [] cls = "TooManyRedirects" -> {"TooManyRedirects", "RequestException"}
      [] cls = "RuntimeError"     -> {"RuntimeError"}
      [] OTHER                    -> {cls}

\* isinstance(e, base)
IsInstance(cls, base) == base \in Bases(cls)

(***************************************************************************)
(* Lines 32-61: _trigger_devops_run.  rem is what the remote does with the *)
(* one POST: a response, or an exception raised by requests.post.          *)
(***************************************************************************)
NoException == [cls |-> "none", detail |-> <<>>]

Raised(cls, detail) == [cls |-> cls, detail |-> detail]

\* Variant: the token carried in the URL's userinfo.
Url_EmbedsToken(cfg, pipeline_id, project) ==
    <<":">> \o cfg.AZDO_PAT \o <<"@">> \o RStripSlash(cfg.AZDO_ORG_URL) \o <<"/">>
        \o Quote(project) \o <<"/_apis/pipelines/">> \o pipeline_id
        \o <<"/runs?api-version=7.1">>

\* Lines 49-52
Url(cfg, pipeline_id, project) ==
    RStripSlash(cfg.AZDO_ORG_URL) \o <<"/">> \o Quote(project)
        \o <<"/_apis/pipelines/">> \o pipeline_id \o <<"/runs?api-version=7.1">>

\* Line 53
Payload(ref_name) ==
    [resources |-> [repositories |-> [self |-> [refName |-> ref_name]]]]

\* Line 56: HTTPBasicAuth("", settings.AZDO_PAT)
HTTPBasicAuth(username, password) == [username |-> username, password |-> password]

\* Lines 49-59: the arguments of requests.post
PostCall(cfg, pipeline_id, project, ref_name) ==
    [url |-> Url(cfg, pipeline_id, project),
     auth |-> HTTPBasicAuth(<<>>, cfg.AZDO_PAT),
     json |-> Payload(ref_name),
     timeout |-> TimeoutSeconds]

\* Variant: "and" in place of "or".
ConfigMissing_BothEmpty(cfg) == cfg.AZDO_ORG_URL = <<>> /\ cfg.AZDO_PAT = <<>>

\* Line 43: not settings.AZDO_ORG_URL or not settings.AZDO_PAT
ConfigMissing(cfg) == cfg.AZDO_ORG_URL = <<>> \/ cfg.AZDO_PAT = <<>>

\* Variant: a timeout is answered by sending the POST once more.
_trigger_devops_run_RetriesOnTimeout(cfg, pipeline_id, project, ref_name, rem) ==
    IF ConfigMissing(cfg)
    THEN [exc |-> Raised("RuntimeError", MsgConfigMissing),
          status |-> 0, body |-> EmptyObject, posts |-> <<>>]
    ELSE LET call == PostCall(cfg, pipeline_id, project, ref_name)
         IN  IF rem.kind = "raise"
             THEN [exc |-> Raised(rem.cls, rem.detail),
                   status |-> 0, body |-> EmptyObject,
                   posts |-> IF IsInstance(rem.cls, "Timeout")
                             THEN <<call, call>> ELSE <<call>>]
             ELSE [exc |-> NoException,
                   status |-> rem.status, body |-> _safe_json(rem.text), posts |-> <<call>>]

\* Returns [exc, status, body, posts]: the exception raised (or none), the
\* returned pair, and the POSTs issued.
_trigger_devops_run(cfg, pipeline_id, project, ref_name, rem) ==
    IF ConfigMissing(cfg)
    THEN [exc |-> Raised("RuntimeError", MsgConfigMissing),
          status |-> 0, body |-> EmptyObject, posts |-> <<>>]
    ELSE LET call == PostCall(cfg, pipeline_id, project, ref_name)
         IN  IF rem.kind = "raise"
             THEN [exc |-> Raised(rem.cls, rem.detail),
                   status |-> 0, body |-> EmptyObject, posts |-> <<call>>]
             ELSE [exc |-> NoException,
                   status |-> rem.status, body |-> _safe_json(rem.text), posts |-> <<call>>]

(***************************************************************************)
(* Lines 64-145: devops_trigger.                                           *)
(***************************************************************************)
\* Line 74
DefaultRef(cfg) == OrElse(GetAttr(cfg.AZDO_DEFAULT_REF, <<>>), FallbackRef)

\* Line 75
DefaultProject(cfg) == GetAttr(cfg.AZDO_DEFAULT_PROJECT, <<>>)

\* Line 83
PipelineIdOf(req) == Strip(OrElse(GetAttr(req.pipelineId, <<>>), <<>>))

\* Line 84
ProjectOf(cfg, req) ==
    OrElse(Strip(OrElse(GetAttr(req.project, <<>>), <<>>)), DefaultProject(cfg))

\* Line 85
RefNameOf(cfg, req) ==
    OrElse(Strip(OrElse(GetAttr(req.refName, <<>>), <<>>)), DefaultRef(cfg))

\* Variant: the checks chained with elif, so only the first violation is kept.
Validate_StopsAtFirst(pipeline_id, project, ref_name) ==
    IF pipeline_id = <<>> \/ ~_PIPELINE_ID_RE(pipeline_id) THEN <<MsgPipelineId>>
    ELSE IF project = <<>> THEN <<MsgProjectRequired>>
    ELSE IF Contains(project, "/") THEN <<MsgProjectSlash>>
    ELSE IF ~StartsWith(ref_name, RefsPrefix) THEN <<MsgBranch>>
    ELSE <<>>

\* Lines 96-107: the list errors
Validate(pipeline_id, project, ref_name) ==
    LET e1 == IF pipeline_id = <<>> \/ ~_PIPELINE_ID_RE(pipeline_id)
              THEN <<MsgPipelineId>> ELSE <<>>
        e2 == IF project = <<>> THEN <<MsgProjectRequired>>
              ELSE IF Contains(project, "/") THEN <<MsgProjectSlash>>
              ELSE <<>>
        e3 == IF ~StartsWith(ref_name, RefsPrefix) THEN <<MsgBranch>> ELSE <<>>
    IN  e1 \o e2 \o e3

LogRecord(level, msg, args, exc_info) ==
    [level |-> level, msg |-> msg, args |-> args, exc_info |-> exc_info]

NoValue == [set |-> FALSE, v |-> <<>>]

NoResult == [set |-> FALSE, status |-> 0, body |-> EmptyObject]

\* Lines 77-80
BaseContext(cfg) ==
    [default_project |-> DefaultProject(cfg), default_ref |-> DefaultRef(cfg),
     form |-> FALSE, pipelineId |-> <<>>, project |-> <<>>, refName |-> <<>>,
     error |-> NoValue, result |-> NoResult]

Rendered(ctx, records, posts) ==
    [context |-> ctx, log |-> records, outbound |-> posts, fault |-> "none"]

\* Variant: no "except RuntimeError" clause.
ExceptClause_NoRuntimeError(cls) ==
    IF IsInstance(cls, "Timeout") THEN "Timeout"
    ELSE IF IsInstance(cls, "RequestException") THEN "RequestException"
    ELSE "uncaught"

\* Variant: "except RequestException" written before "except Timeout".
ExceptClause_RequestExceptionFirst(cls) ==
    IF IsInstance(cls, "RequestException") THEN "RequestException"
    ELSE IF IsInstance(cls, "Timeout") THEN "Timeout"
    ELSE IF IsInstance(cls, "RuntimeError") THEN "RuntimeError"
    ELSE "uncaught"

\* Lines 131, 136, 141: the first except clause that catches cls, tried in
\* the order written.
ExceptClause(cls) ==
    IF IsInstance(cls, "Timeout") THEN "Timeout"
    ELSE IF IsInstance(cls, "RequestException") THEN "RequestException"
    ELSE IF IsInstance(cls, "RuntimeError") THEN "RuntimeError"
    ELSE "uncaught"

\* Variant: status > 400
HasHint_Above(status) == status > ErrorStatus

\* Line 125: status >= 400
HasHint(status) == status >= ErrorStatus

\* Lines 113-143: the try statement, with the result r of _trigger_devops_run
TryTrigger(ctx, pipeline_id, project, r) ==
    IF r.exc.cls = "none"
    THEN \* lines 115-129
         Rendered(
            [ctx EXCEPT !.result = [set |-> TRUE, status |-> r.status, body |-> r.body],
                        !.error = IF HasHint(r.status) THEN Set(MsgHint(r.status)) ELSE @],
            <<LogRecord("INFO",
                "Triggered Azure DevOps pipeline: project=%s pipeline_id=%s status=%s",
                <<project, pipeline_id, Str(r.status)>>, NoException)>>,
            r.posts)
    ELSE IF ExceptClause(r.exc.cls) = "Timeout"
    THEN \* lines 131-135
         Rendered(
            [ctx EXCEPT !.error = Set(MsgTimeout)],
            <<LogRecord("WARNING",
                "Timeout triggering pipeline: project=%s pipeline_id=%s",
                <<project, pipeline_id>>, NoException)>>,
            r.posts)
    ELSE IF ExceptClause(r.exc.cls) = "RequestException"
    THEN \* lines 136-140: logger.exception logs at ERROR with the exception
         Rendered(
            [ctx EXCEPT !.error = Set(MsgNetwork(r.exc.detail))],
            <<LogRecord("ERROR",
                "Network error triggering pipeline: project=%s pipeline_id=%s",
                <<project, pipeline_id>>, r.exc)>>,
            r.posts)
    ELSE IF ExceptClause(r.exc.cls) = "RuntimeError"
    THEN \* lines 141-143
         Rendered(
            [ctx EXCEPT !.error = Set(r.exc.detail)],
            <<LogRecord("ERROR", "Configuration error: %s", <<r.exc.detail>>, NoException)>>,
            r.posts)
    ELSE \* no except clause matches: the exception leaves the view
         [context |-> ctx, log |-> <<>>, outbound |-> r.posts, fault |-> r.exc.cls]

\* Variant: a rejected form is logged as well.
HandlePost_LogsRejected(cfg, req, rem) ==
    LET pipeline_id == PipelineIdOf(req)
        project == ProjectOf(cfg, req)
        ref_name == RefNameOf(cfg, req)
        ctx == [BaseContext(cfg) EXCEPT !.form = TRUE, !.pipelineId = pipeline_id,
                                        !.project = project, !.refName = ref_name]
        errors == Validate(pipeline_id, project, ref_name)
    IN  IF errors # <<>>
        THEN Rendered([ctx EXCEPT !.error = Set(Join(<<" ">>, errors))],
                      <<LogRecord("WARNING",
                          "Invalid input: project=%s pipeline_id=%s",
                          <<project, pipeline_id>>, NoException)>>,
                      <<>>)
        ELSE TryTrigger(ctx, pipeline_id, project,
                        _trigger_devops_run(cfg, pipeline_id, project, ref_name, rem))

\* Lines 82-145 for a POST: [context, log, outbound, fault]
HandlePost(cfg, req, rem) ==
    LET pipeline_id == PipelineIdOf(req)
        project == ProjectOf(cfg, req)
        ref_name == RefNameOf(cfg, req)
        ctx == [BaseContext(cfg) EXCEPT !.form = TRUE, !.pipelineId = pipeline_id,
                                        !.project = project, !.refName = ref_name]
        errors == Validate(pipeline_id, project, ref_name)
    IN  IF errors # <<>>
        THEN Rendered([ctx EXCEPT !.error = Set(Join(<<" ">>, errors))], <<>>, <<>>)
        ELSE TryTrigger(ctx, pipeline_id, project,
                        _trigger_devops_run(cfg, pipeline_id, project, ref_name, rem))

\* Whether the POST reaches requests.post (line 59), where the remote acts.
ReachesPost(cfg, req) ==
    /\ Validate(PipelineIdOf(req), ProjectOf(cfg, req), RefNameOf(cfg, req)) = <<>>
    /\ ~ConfigMissing(cfg)

(***************************************************************************)
(* Inputs.                                                                 *)
(***************************************************************************)
IdChars == {"4", "U+0664", "+", " "}

PipelineIds == SeqsUpTo(IdChars, MaxIdLen) \cup {<<"4", " ", "4">>, <<"a", "b", "c">>}

Projects == {<<>>, <<" ">>, <<"P">>, <<" ", "P", " ", "Q", " ">>, <<"/">>, <<"A", "/", "B">>, <<"t">>}

RefNames ==
    { <<>>, <<" ">>, <<"m">>, RefsPrefix, RefsPrefix \o <<"m">>, <<" ">> \o RefsPrefix \o <<"m", " ">>,
      <<"r", "e", "f", "s">>, <<"r", "e", "f", "s", "m">>, <<"x">> \o RefsPrefix }

Field(S) == {Set(v) : v \in S} \cup {Unset}

PostRequest(i, p, r) == [method |-> "POST", pipelineId |-> i, project |-> p, refName |-> r]

Requests ==
    { PostRequest(i, p, r) :
        i \in Field(PipelineIds), p \in Field(Projects), r \in Field(RefNames) }

GetRequest == [method |-> "GET", pipelineId |-> Unset, project |-> Unset, refName |-> Unset]

Statuses == {200, 399, 400, 404}

Response(status, text) ==
    [kind |-> "response", status |-> status, text |-> text, cls |-> "none", detail |-> <<>>]

Raise(cls, detail) ==
    [kind |-> "raise", status |-> 0, text |-> <<>>, cls |-> cls, detail |-> detail]

NotContacted ==
    [kind |-> "none", status |-> 0, text |-> <<>>, cls |-> "none", detail |-> <<>>]

Details == {<<>>, <<"x">>, <<"t">>}

Raises ==
    { Raise(c, d) : c \in {"ReadTimeout", "ConnectTimeout", "ConnectionError",
                           "SSLError", "TooManyRedirects"},
                    d \in Details }

ShortBodies ==
    { <<>>, <<" ">>, <<"x">>, <<"{", "}">>, <<"[", "4", "]">>, <<"\\q", "t", "\\q">>, <<"t">> }

Remotes == { Response(s, t) : s \in Statuses, t \in ShortBodies } \cup Raises

\* Bodies for the normaliser: every text up to MaxBodyLen, and texts around
\* the RawLimit.
BodyChars == {" ", "\\v", "4", "0", "x", "\\q", "[", "]", ","}

LongBodies ==
    { Repeat("x", RawLimit + d) : d \in 0..MaxOver }
      \cup { Repeat(" ", RawLimit) \o <<"x">>,
             <<"[">> \o Repeat(" ", RawLimit) \o <<"]">>,
             <<"[">> \o Repeat(" ", RawLimit) \o <<"x">> }

Bodies ==
    SeqsUpTo(BodyChars, MaxBodyLen)
      \cup { <<"{", "}">>, <<"{", " ", "}">>,
             <<"[", "4", ",", " ", "4", "]">>, <<"[", "4", ",", "]">>, <<"[", "[", "]", "]">>,
             <<"{", "\\q", "x", "\\q", ":", "4", "}">>,
             <<"{", "\\q", "x", "\\q", ":", "4", ",", "\\q", "x", "\\q", ":", "0", "}">>,
             <<"{", "\\q", "x", "\\q", "4", "}">>,
             <<"{", "x", ":", "4", "}">> }
      \cup LongBodies

BodyRemotes == { Response(s, t) : s \in Statuses, t \in Bodies }

BodySettings == { c \in Settings : c.AZDO_DEFAULT_REF = Unset /\ c.AZDO_PAT # <<"k">> }

BodyRequests ==
    { PostRequest(Set(i), p, Unset) :
        i \in {<<"4">>, <<"4", "4">>, <<"+">>}, p \in {Set(<<"P">>), Unset} }

(***************************************************************************)
(* The state machine.  The view keeps nothing between requests (settings   *)
(* are read-only), so a behaviour is one request: Init is the worker with  *)
(* its settings, the request it received and what the remote will do if    *)
(* the request reaches requests.post; the one step serves the request.     *)
(* phase is the position of the request: "received", then "served".        *)
(***************************************************************************)
\* The remote's behaviours for a request: none where line 59 is not reached.
Offered(cfg, req, rems) ==
    IF req.method = "POST" /\ ReachesPost(cfg, req) THEN rems ELSE {NotContacted}

InitWith(cfgs, reqs, rems) ==
    /\ settings \in cfgs
    /\ request \in reqs \cup {GetRequest}
    /\ remote \in Offered(settings, request, rems)
    /\ phase = "received"
    /\ context = BaseContext(settings)
    /\ log = <<>>
    /\ outbound = <<>>
    /\ fault = "none"

Init == InitWith(Settings, Requests, Remotes)

InitBodies == InitWith(BodySettings, BodyRequests, BodyRemotes)

Serve(out) ==
    /\ phase' = "served"
    /\ context' = out.context
    /\ log' = out.log
    /\ outbound' = out.outbound
    /\ fault' = out.fault
    /\ UNCHANGED <<settings, request, remote>>

\* GET: lines 74-80 and 145
devops_trigger_GET ==
    /\ phase = "received"
    /\ request.method = "GET"
    /\ Serve(Rendered(BaseContext(settings), <<>>, <<>>))

\* POST: lines 74-145
devops_trigger_POST ==
    /\ phase = "received"
    /\ request.method = "POST"
    /\ Serve(HandlePost(settings, request, remote))

Next == devops_trigger_GET \/ devops_trigger_POST

Spec == Init /\ [][Next]_vars

\* The same view served over the bodies of the response normaliser.
SpecBodies == InitBodies /\ [][Next]_vars

(***************************************************************************)
(* Vocabulary of the properties: the request as the specification reads    *)
(* it, stated apart from the view's own code.                              *)
(***************************************************************************)
Posted == phase = "served" /\ request.method = "POST"

Submitted(field) == IF field.set THEN field.v ELSE <<>>

TrimmedId == Strip(Submitted(request.pipelineId))

ConfiguredProject ==
    IF settings.AZDO_DEFAULT_PROJECT.set THEN settings.AZDO_DEFAULT_PROJECT.v ELSE <<>>

ConfiguredRef ==
    IF settings.AZDO_DEFAULT_REF.set /\ settings.AZDO_DEFAULT_REF.v # <<>>
    THEN settings.AZDO_DEFAULT_REF.v
    ELSE <<"r", "e", "f", "s", "/", "h", "e", "a", "d", "s", "/", "m", "a", "i", "n">>

SubstProject ==
    IF Strip(Submitted(request.project)) = <<>> THEN ConfiguredProject
    ELSE Strip(Submitted(request.project))

SubstRef ==
    IF Strip(Submitted(request.refName)) = <<>> THEN ConfiguredRef
    ELSE Strip(Submitted(request.refName))

\* ^[0-9]+$
AsciiNumeric(s) ==
    s # <<>> /\ \A i \in 1..Len(s) : s[i] \in {"0", "1", "2", "3", "4", "5", "6", "7", "8", "9"}

\* One or more decimal digits, of any script.
DecimalDigits(s) == s # <<>> /\ \A i \in 1..Len(s) : s[i] \in UnicodeDigits

IdOk == DecimalDigits(TrimmedId)

ProjectOk == SubstProject # <<>> /\ \A i \in 1..Len(SubstProject) : SubstProject[i] # "/"

RefOk == Len(SubstRef) >= 5 /\ SubSeq(SubstRef, 1, 5) = <<"r", "e", "f", "s", "/">>

\* The messages of the violated field rules, in the order pipelineId,
\* project, refName.
ExpectedMessages ==
    (IF IdOk THEN <<>> ELSE << <<"Pipeline ID must be a numeric ID (e.g., 42).">> >>)
      \o (IF SubstProject = <<>> THEN << <<"Project is required.">> >>
          ELSE IF ProjectOk THEN <<>>
          ELSE << <<"Project must not contain '/'. Use the exact display name from Azure DevOps.">> >>)
      \o (IF RefOk THEN <<>>
          ELSE << <<"Branch must be a valid Git ref (e.g., refs/heads/main).">> >>)

\* Up to three messages joined by a single space.
SpaceJoined(m) ==
    CASE Len(m) = 1 -> m[1]
      [] Len(m) = 2 -> m[1] \o <<" ">> \o m[2]
      [] Len(m) = 3 -> m[1] \o <<" ">> \o m[2] \o <<" ">> \o m[3]
      [] OTHER -> <<>>

ConfigPresent == settings.AZDO_ORG_URL # <<>> /\ settings.AZDO_PAT # <<>>

TimeoutClasses == {"ReadTimeout", "ConnectTimeout"}

ConfigurationMessage == <<"Azure DevOps configuration missing (AZDO_ORG_URL or AZDO_PAT).">>

TimeoutMessage == <<"Request to Azure DevOps timed out. Please retry.">>

NetworkMessage(details) == <<"Network error while contacting Azure DevOps: ">> \o details

\* Every text of a JSON value.
RECURSIVE JsonTexts(_)
JsonTexts(v) ==
    {v.s} \cup {v.keys[i] : i \in 1..Len(v.keys)}
          \cup UNION {JsonTexts(v.kids[i]) : i \in 1..Len(v.kids)}

\* Every text the caller or the log sink receives.
VisibleTexts ==
    {context.default_project, context.default_ref, context.pipelineId,
     context.project, context.refName, context.error.v}
      \cup JsonTexts(context.result.body)
      \cup UNION {{log[i].args[j] : j \in 1..Len(log[i].args)} : i \in 1..Len(log)}
      \cup {log[i].exc_info.detail : i \in 1..Len(log)}

(***************************************************************************)
(* C1.  A POST to the view issues exactly one outbound HTTP POST when      *)
(* validation finds no violation and both the organisation URL and the     *)
(* access token are non-empty, and none otherwise: never more than one,    *)
(* whatever the remote does (no retry).                                    *)
(***************************************************************************)
C1_ExactlyOnePostOrNone ==
    /\ phase = "received" => outbound = <<>>
    /\ phase = "served" /\ request.method = "GET" => outbound = <<>>
    /\ Posted =>
         Len(outbound) = (IF ExpectedMessages = <<>> /\ ConfigPresent THEN 1 ELSE 0)

C1_Witness ==
    /\ Posted
    /\ remote.kind = "raise"
    /\ remote.cls \in TimeoutClasses
    /\ Len(outbound) = 1

(***************************************************************************)
(* C2.  A pipelineId whose trimmed form does not match ^[0-9]+$ is         *)
(* rejected as invalid input with the message "Pipeline ID must be a       *)
(* numeric ID (e.g., 42)." and no network call, whatever the project, the  *)
(* refName and the configuration.                                          *)
(***************************************************************************)
C2_NonNumericIdRejected ==
    Posted /\ ~AsciiNumeric(TrimmedId) =>
        /\ context.error.set
        /\ StartsWith(context.error.v, <<"Pipeline ID must be a numeric ID (e.g., 42).">>)
        /\ ~context.result.set
        /\ outbound = <<>>

(***************************************************************************)
(* C3.  A request that passes validation while the organisation URL or the *)
(* access token is empty ends in the configuration failure with exactly    *)
(* the message "Azure DevOps configuration missing (AZDO_ORG_URL or        *)
(* AZDO_PAT).", before any call is built or sent, whatever the valid       *)
(* input is.                                                               *)
(***************************************************************************)
C3_ConfigurationFailure ==
    Posted /\ ExpectedMessages = <<>> /\ ~ConfigPresent =>
        /\ context.error = Set(ConfigurationMessage)
        /\ ~context.result.set
        /\ outbound = <<>>
        /\ fault = "none"

C3_Witness ==
    /\ Posted
    /\ ExpectedMessages = <<>>
    /\ settings.AZDO_ORG_URL # <<>>
    /\ settings.AZDO_PAT = <<>>
    /\ context.error = Set(ConfigurationMessage)

C5_OneRecordPerAttempt == Posted => Len(log) = 1

(***************************************************************************)
(* C5 as amended.  A POST that fails validation emits no log record.  A    *)
(* POST that passes validation emits exactly one: INFO with project,       *)
(* pipelineId and status for a received response; WARNING with project and *)
(* pipelineId for a timeout; ERROR with project, pipelineId and the        *)
(* exception attached for another network failure; ERROR with the          *)
(* configuration message alone for a configuration failure.                *)
(***************************************************************************)
C5_OneRecordPerValidatedAttempt ==
    /\ Posted /\ ExpectedMessages # <<>> => log = <<>>
    /\ Posted /\ ExpectedMessages = <<>> =>
         /\ Len(log) = 1
         /\ IF ~ConfigPresent
            THEN /\ log[1].level = "ERROR"
                 /\ log[1].args = <<ConfigurationMessage>>
                 /\ log[1].exc_info.cls = "none"
            ELSE IF remote.kind = "response"
            THEN /\ log[1].level = "INFO"
                 /\ log[1].args = <<SubstProject, TrimmedId, Str(remote.status)>>
                 /\ log[1].exc_info.cls = "none"
            ELSE IF remote.cls \in TimeoutClasses
            THEN /\ log[1].level = "WARNING"
                 /\ log[1].args = <<SubstProject, TrimmedId>>
                 /\ log[1].exc_info.cls = "none"
            ELSE /\ log[1].level = "ERROR"
                 /\ log[1].args = <<SubstProject, TrimmedId>>
                 /\ log[1].exc_info = [cls |-> remote.cls, detail |-> remote.detail]

C5_Witness ==
    /\ Posted
    /\ ExpectedMessages = <<>>
    /\ remote.kind = "raise"
    /\ remote.cls = "ConnectionError"
    /\ Len(log) = 1
    /\ log[1].exc_info.cls = "ConnectionError"

(***************************************************************************)
(* C6 as stated.  The access token never appears as a substring of any     *)
(* text of the outcome or of a log record, for any user input, response    *)
(* body and failure detail.                                                *)
(***************************************************************************)
C6_TokenNeverAppears ==
    Posted /\ settings.AZDO_PAT # <<>> =>
        \A t \in VisibleTexts : ~IsSubstring(settings.AZDO_PAT, t)

(***************************************************************************)
(* C6 as amended.  The view copies the access token nowhere but into the   *)
(* password of the outbound call: with the user input, the rest of the     *)
(* configuration and the remote's behaviour fixed, any other non-empty     *)
(* token gives the same outcome and the same log records, and an outbound  *)
(* call that differs in the password only.                                 *)
(***************************************************************************)
C6_TokenNonInterference ==
    Posted /\ settings.AZDO_PAT # <<>> =>
        \A tok \in Tokens :
            LET run == HandlePost([settings EXCEPT !.AZDO_PAT = tok], request, remote)
            IN  /\ run.context = context
                /\ run.log = log
                /\ run.fault = fault
                /\ Len(run.outbound) = Len(outbound)
                /\ \A i \in 1..Len(outbound) :
                      /\ outbound[i].auth.password = settings.AZDO_PAT
                      /\ run.outbound[i].auth.password = tok
                      /\ [run.outbound[i] EXCEPT !.auth.password = <<>>]
                            = [outbound[i] EXCEPT !.auth.password = <<>>]

C6_Witness ==
    /\ Posted
    /\ settings.AZDO_PAT = <<"k">>
    /\ Len(outbound) = 1
    /\ outbound[1].auth.password = <<"k">>
    /\ remote.kind = "raise"
    /\ remote.cls = "ConnectionError"
    /\ context.error = Set(NetworkMessage(remote.detail))

(***************************************************************************)
(* C7.  A timeout of the outbound call gives the message "Request to Azure *)
(* DevOps timed out. Please retry." and one WARNING record; any other      *)
(* network failure gives "Network error while contacting Azure DevOps:     *)
(* {details}" and one ERROR record.  Neither is reported as the other.     *)
(***************************************************************************)
C7_TimeoutVersusNetwork ==
    Posted /\ remote.kind = "raise" =>
        /\ ~context.result.set
        /\ Len(log) = 1
        /\ IF remote.cls \in TimeoutClasses
           THEN context.error = Set(TimeoutMessage) /\ log[1].level = "WARNING"
           ELSE context.error = Set(NetworkMessage(remote.detail)) /\ log[1].level = "ERROR"

C7_Witness ==
    /\ Posted
    /\ remote.kind = "raise"
    /\ remote.cls = "ConnectTimeout"
    /\ context.error = Set(TimeoutMessage)
    /\ log[1].level = "WARNING"

C9_ResponseIsReported ==
    Posted /\ remote.kind = "response" =>
        /\ fault = "none"
        /\ context.result = [set |-> TRUE, status |-> remote.status,
                             body |-> _safe_json(remote.text)]
        /\ Len(log) = 1 /\ log[1].level = "INFO"
        /\ context.error.set <=> remote.status >= 400
        /\ remote.status >= 400 =>
             context.error.v =
                <<"Azure DevOps returned HTTP ">> \o Str(remote.status)
                  \o <<". Check pipeline ID, project name, branch ref, permissions, and PAT scopes.">>

C9_Witness ==
    /\ Posted
    /\ remote.kind = "response"
    /\ remote.status = 400
    /\ context.result.set
    /\ context.result.status = 400
    /\ context.error.set

====
